---------------------------- MODULE Spec2Model ----------------------------
(***************************************************************************)
(* Model of the MailMate text-template bundle's two scripts:               *)
(*   Support/bin/ttinsert.py        (insert a template into a draft)       *)
(*   Support/bin/templates_root.py  (change the template root)             *)
(*                                                                         *)
(* Text is modelled character by character: a Python str is a sequence of  *)
(* one-character strings.  An optional value (Python's None) is a record   *)
(* [set, v].  Files are opened in text mode, so reading translates "\r\n"  *)
(* and "\r" to "\n" (universal newlines) and writing leaves the text as it *)
(* is (os.linesep is "\n" on the platform the bundle runs on).             *)
(*                                                                         *)
(* ttinsert.py also defines get_template_root, write_template_root and     *)
(* prompt_for_template_root (lines 63-101).  Neither script calls them, so *)
(* no run reaches them; SpecPrompt calls each of them directly, next to    *)
(* the two scripts' prompt_for_templates_root.                             *)
(***************************************************************************)
EXTENDS Integers, Sequences, FiniteSets, TLC

\* ------------------------------------------------------------ bounds
\* most lines of a target file
MaxLines == 3
\* largest line number the host hands over in MM_LINE_NUMBER
MaxLineNo == 3
\* longest path handed to update_templates_root in the config round trip
MaxPathLen == 3
\* most fragments of a template text handed to replace_tags
MaxFrags == 3

\* ------------------------------------------------------------ text
NL == "\n"
CR == "\r"
SP == " "
TAB == "\t"
FF == "\f"
\* the characters below have no escape; each string holds the character itself
\* U+000B, vertical tab
VT == ""
\* U+001C .. U+001F, the four information separators
FS == ""
GS == ""
RS == ""
US == ""
\* U+0085, next line, and U+00A0, no-break space
NEL == ""
NBSP == " "
\* the characters str.strip() trims: those str.isspace() is true of.  The ones
\* past U+00FF (U+1680, U+2000-U+200A, U+2028, U+2029, U+202F, U+205F, U+3000)
\* cannot be written in a string here and are left out of the alphabet.
Whitespace == {SP, NL, CR, TAB, FF, VT, FS, GS, RS, US, NEL, NBSP}
\* the characters int() trims around the digits: the same, without the four
\* information separators
IntWhitespace == Whitespace \ {FS, GS, RS, US}

Absent == [set |-> FALSE, v |-> <<>>]
Some(s) == [set |-> TRUE, v |-> s]
\* Python truthiness of a str-or-None: None and "" are falsy
Truthy(o) == o.set /\ o.v # <<>>

\* F applied to the value of v, v evaluated once (a local variable assignment)
With(v, F(_)) == CHOOSE r \in {F(x) : x \in {v}} : TRUE

\* all sequences over S of length at most n
RECURSIVE SeqsUpTo(_, _)
SeqsUpTo(S, n) ==
    IF n = 0 THEN {<<>>}
    ELSE LET shorter == SeqsUpTo(S, n - 1)
         IN  shorter \cup {Append(s, x) : s \in {t \in shorter : Len(t) = n - 1}, x \in S}

RECURSIVE Concat(_)
Concat(ls) == IF ls = <<>> THEN <<>> ELSE Head(ls) \o Concat(Tail(ls))

\* what lies between the first and the last character of s that is not in ws
StripOf(s, ws) ==
    LET keep == {i \in DOMAIN s : s[i] \notin ws}
    IN  IF keep = {} THEN <<>>
        ELSE SubSeq(s, CHOOSE i \in keep : \A j \in keep : i <= j,
                       CHOOSE i \in keep : \A j \in keep : i >= j)
\* str.strip()
Strip(s) == StripOf(s, Whitespace)

\* what a text-mode read returns for the stored characters: "\r\n" and a lone
\* "\r" both come back as "\n"
Dropped == ""
IsKept(c) == c # Dropped
TextRead(s) ==
    SelectSeq([i \in DOMAIN s |->
                  IF s[i] = CR THEN NL
                  ELSE IF s[i] = NL /\ i > 1 /\ s[i - 1] = CR THEN Dropped
                       ELSE s[i]],
              IsKept)

\* what a text-mode write stores for the characters written
TextWrite(s) == s

\* the lines of s, as file.readlines() cuts translated text: every line keeps
\* its "\n"; a last line without one is kept as it is
SplitLines(s) ==
    LET ends == {i \in DOMAIN s : s[i] = NL}
        \* where the line that ends at e starts
        StartOf(e) == IF \E i \in ends : i < e
                      THEN (CHOOSE i \in ends : i < e /\ \A j \in ends : j < e => j <= i) + 1
                      ELSE 1
        \* the end of the j-th line
        EndOf(j) == CHOOSE e \in ends : Cardinality({i \in ends : i <= e}) = j
        whole == [j \in 1..Cardinality(ends) |-> SubSeq(s, StartOf(EndOf(j)), EndOf(j))]
        tailStart == StartOf(Len(s) + 1)
    IN  IF tailStart <= Len(s) THEN Append(whole, SubSeq(s, tailStart, Len(s))) ELSE whole

ReadLines(stored) == With(TextRead(stored), LAMBDA text : SplitLines(text))

\* list.insert(idx, x): a negative index counts from the end, and an index
\* outside the list is clamped to its nearest end
ListInsert(l, idx, x) ==
    LET fromEnd == IF idx < 0 THEN idx + Len(l) ELSE idx
        at == IF fromEnd < 0 THEN 0 ELSE IF fromEnd > Len(l) THEN Len(l) ELSE fromEnd
    IN  SubSeq(l, 1, at) \o <<x>> \o SubSeq(l, at + 1, Len(l))

Max(a, b) == IF a >= b THEN a ELSE b

\* str.replace(old, new): leftmost, non-overlapping, one pass over s
MatchesAt(s, i, p) == i + Len(p) - 1 <= Len(s) /\ SubSeq(s, i, i + Len(p) - 1) = p
HasPrefix(s, p) == MatchesAt(s, 1, p)
RECURSIVE ReplaceFrom(_, _, _, _)
ReplaceFrom(s, i, old, new) ==
    IF i > Len(s) THEN <<>>
    ELSE IF MatchesAt(s, i, old)
         THEN new \o ReplaceFrom(s, i + Len(old), old, new)
         ELSE <<s[i]>> \o ReplaceFrom(s, i + 1, old, new)
Replace(s, old, new) == ReplaceFrom(s, 1, old, new)

\* ------------------------------------------------------------ int()
Digits == <<"0", "1", "2", "3", "4", "5", "6", "7", "8", "9">>
IsDigit(c) == \E i \in 1..10 : Digits[i] = c
DigitVal(c) == (CHOOSE i \in 1..10 : Digits[i] = c) - 1

\* digits with single underscores between them
RECURSIVE DigitsOk(_, _)
DigitsOk(s, prevDigit) ==
    IF s = <<>> THEN prevDigit
    ELSE IF IsDigit(Head(s)) THEN DigitsOk(Tail(s), TRUE)
         ELSE IF Head(s) = "_" THEN prevDigit /\ DigitsOk(Tail(s), FALSE)
              ELSE FALSE

RECURSIVE DigitsValue(_, _)
DigitsValue(s, acc) ==
    IF s = <<>> THEN acc
    ELSE IF Head(s) = "_" THEN DigitsValue(Tail(s), acc)
         ELSE DigitsValue(Tail(s), 10 * acc + DigitVal(Head(s)))

\* int(str): [ok |-> FALSE] stands for ValueError
IntParseDefaultsToZero(str) ==
    LET t == StripOf(str, IntWhitespace)
        signed == t # <<>> /\ Head(t) \in {"-", "+"}
        body == IF signed THEN Tail(t) ELSE t
    IN  IF DigitsOk(body, FALSE)
        THEN [ok |-> TRUE,
              n |-> IF signed /\ Head(t) = "-" THEN 0 - DigitsValue(body, 0)
                    ELSE DigitsValue(body, 0)]
        ELSE [ok |-> TRUE, n |-> 0]
IntParse(str) ==
    LET t == StripOf(str, IntWhitespace)
        signed == t # <<>> /\ Head(t) \in {"-", "+"}
        body == IF signed THEN Tail(t) ELSE t
    IN  IF DigitsOk(body, FALSE)
        THEN [ok |-> TRUE,
              n |-> IF signed /\ Head(t) = "-" THEN 0 - DigitsValue(body, 0)
                    ELSE DigitsValue(body, 0)]
        ELSE [ok |-> FALSE, n |-> 0]

\* int(x) for the "int or str" argument of insert_text_at_line
IntOf(x) == IF x.kind = "int" THEN [ok |-> TRUE, n |-> x.n] ELSE IntParse(x.s)
AsInt(n) == [kind |-> "int", n |-> n, s |-> <<>>]
AsStr(s) == [kind |-> "str", n |-> 0, s |-> s]

\* str(n), as the host formats the line number it exports
RECURSIVE NatToStr(_)
NatToStr(n) == IF n < 10 THEN <<Digits[n + 1]>> ELSE NatToStr(n \div 10) \o <<Digits[(n % 10) + 1]>>
IntToStr(k) == IF k < 0 THEN <<"-">> \o NatToStr(0 - k) ELSE NatToStr(k)

\* ------------------------------------------------------------ the host
\* the two placeholder tokens of replace_tags
TagFirst == <<"[", "[", "T", "O", "=", "f", "i", "r", "s", "t", "n", "a", "m", "e", "]", "]">>
TagFull == <<"[", "[", "T", "O", "=", "f", "u", "l", "l", "n", "a", "m", "e", "]", "]">>

\* os.path.expanduser('~/Documents')
Documents == <<"~", "D">>

\* the directories and the regular files of the file system the run sees
Dirs == {<<"d">>, <<"e">>}
IsDir(p) == p \in Dirs

TemplateF == <<"H", "i", SP>> \o TagFirst \o <<",">>
TemplateG == TemplateF \o <<NL>>
TemplateH == TagFull \o <<CR, NL, "x", NL>>
TemplatePaths == {<<"f">>, <<"g">>, <<"h">>, <<"z">>, <<"u">>}
\* stored content of each regular file; "u" exists and cannot be read
FileContent(p) ==
    CASE p = <<"f">> -> TemplateF
      [] p = <<"g">> -> TemplateG
      [] p = <<"h">> -> TemplateH
      [] OTHER -> <<>>
IsFile(p) == p \in TemplatePaths
Readable(p) == p # <<"u">>

\* what a picker subprocess can do: the launch raises, or the process ends with
\* a return code and its standard output
PickerOutcome(raised, rc, out) == [raised |-> raised, rc |-> rc, stdout |-> out]
DirPickerOutcomes ==
    {PickerOutcome(TRUE, 0, <<>>)}
    \cup {PickerOutcome(FALSE, 0, o) :
            o \in {<<>>, <<GS, "d", NEL, NL>>, <<SP, "e", CR, NL>>, <<"q", NL>>, <<"f", NL>>}}
    \cup {PickerOutcome(FALSE, 1, o) : o \in {<<>>, <<"d", NL>>}}
TemplatePickerOutcomes ==
    {PickerOutcome(TRUE, 0, <<>>)}
    \cup {PickerOutcome(FALSE, 0, o) :
            o \in {<<>>, <<"f", NL>>, <<FF, "g", CR, NL>>, <<RS, "h", VT, NL>>, <<"z", NL>>,
                   <<"u", NL>>, <<"d", NL>>, <<"q", NL>>}}
    \cup {PickerOutcome(FALSE, 1, o) : o \in {<<>>, <<"f", NL>>}}
NoOutcome == [raised |-> FALSE, rc |-> 0 - 1, stdout |-> <<>>]

\* ------------------------------------------------------------ config store
\* the config file is Absent (no such file) or Some(stored characters)
get_templates_root(cfg) ==
    IF cfg.set
    THEN LET path == Strip(TextRead(cfg.v))
         IN  IF path # <<>> THEN Some(path) ELSE Absent
    ELSE Absent

\* the config file after update_templates_root(path)
UpdateAppends(cfg, path) ==
    Some((IF cfg.set THEN cfg.v ELSE <<>>) \o TextWrite(Strip(path) \o <<NL>>))
update_templates_root(cfg, path) == Some(TextWrite(Strip(path) \o <<NL>>))

\* prompt_for_templates_root, given the picker's outcome: what it passed to the
\* picker, whether it raised, what it returned and the config file afterwards
PromptForTemplatesRoot(arg, o, cfg) ==
    LET selected_dir == Strip(TextRead(o.stdout))
    IN  IF o.raised
        THEN [arg |-> arg, raised |-> TRUE, ret |-> Absent, config |-> cfg, wrote |-> FALSE]
        ELSE IF o.rc = 0 /\ IsDir(selected_dir)
             THEN [arg |-> arg, raised |-> FALSE, ret |-> Some(selected_dir),
                   config |-> update_templates_root(cfg, selected_dir), wrote |-> TRUE]
             ELSE [arg |-> arg, raised |-> FALSE, ret |-> Absent, config |-> cfg,
                   wrote |-> FALSE]

\* ttinsert.py: the picker always starts in ~/Documents
prompt_for_templates_root_insert(o, cfg) == PromptForTemplatesRoot(Documents, o, cfg)
\* templates_root.py: the picker starts in the configured root, if there is one
default_dir(cfg) ==
    LET root == get_templates_root(cfg)
    IN  IF Truthy(root) THEN root.v ELSE Documents
prompt_for_templates_root_change(arg, o, cfg) == PromptForTemplatesRoot(arg, o, cfg)

\* os.path.expanduser('~')
Home == <<"~">>

\* ttinsert.py, lines 63-101: the functions no script calls.  They read and
\* write the same config file; the prompt starts pick-template.swift in ~.
get_template_root(cfg) ==
    IF cfg.set
    THEN LET path == Strip(TextRead(cfg.v))
         IN  IF path # <<>> THEN Some(path) ELSE Absent
    ELSE Absent
write_template_root(cfg, path) == Some(TextWrite(Strip(path) \o <<NL>>))
prompt_for_template_root(o, cfg) ==
    LET selected_dir == Strip(TextRead(o.stdout))
    IN  IF o.raised
        THEN [arg |-> Home, raised |-> TRUE, ret |-> Absent, config |-> cfg, wrote |-> FALSE]
        ELSE IF o.rc = 0 /\ IsDir(selected_dir)
             THEN [arg |-> Home, raised |-> FALSE, ret |-> Some(selected_dir),
                   config |-> write_template_root(cfg, selected_dir), wrote |-> TRUE]
             ELSE [arg |-> Home, raised |-> FALSE, ret |-> Absent, config |-> cfg,
                   wrote |-> FALSE]

\* ------------------------------------------------------------ template
\* get_template, given the picker's outcome: every exception is swallowed
GetTemplateFatal(o) ==
    LET selected_file == Strip(TextRead(o.stdout))
    IN  IF o.raised \/ (o.rc = 0 /\ IsFile(selected_file) /\ ~Readable(selected_file))
        THEN [raised |-> TRUE, ret |-> Absent, opened |-> FALSE]
        ELSE IF o.rc = 0 /\ IsFile(selected_file)
             THEN [raised |-> FALSE, ret |-> Some(TextRead(FileContent(selected_file))),
                   opened |-> TRUE]
             ELSE [raised |-> FALSE, ret |-> Absent, opened |-> FALSE]
get_template(o) ==
    LET selected_file == Strip(TextRead(o.stdout))
    IN  IF o.raised
        THEN [raised |-> FALSE, ret |-> Absent, opened |-> FALSE]
        ELSE IF o.rc = 0 /\ IsFile(selected_file)
             THEN IF Readable(selected_file)
                  THEN [raised |-> FALSE, ret |-> Some(TextRead(FileContent(selected_file))),
                        opened |-> TRUE]
                  ELSE [raised |-> FALSE, ret |-> Absent, opened |-> TRUE]
             ELSE [raised |-> FALSE, ret |-> Absent, opened |-> FALSE]

\* os.environ.get(name, '')
EnvOr(o, dflt) == IF o.set THEN o.v ELSE dflt

replace_tags(text, first, full) ==
    With(Replace(text, TagFirst, EnvOr(first, <<>>)),
         LAMBDA text1 : Replace(text1, TagFull, EnvOr(full, <<>>)))

\* ------------------------------------------------------------ insertion
\* insert_text_at_line: the target file is Absent (no such file) or Some(stored
\* characters).  raised names the exception that ends the call, "" for none;
\* lines is the local list, read and wrote say which opens succeeded.
InsertIndexNoClamp(n) == n - 1
InsertIndexOffByOne(n) == Max(0, n)
InsertIndex(n) == Max(0, n - 1)

insert_text_at_line(tgt, line_number, text) ==
    IF ~tgt.set
    THEN [raised |-> "FileNotFoundError", target |-> tgt, lines |-> <<>>,
          read |-> FALSE, wrote |-> FALSE]
    ELSE With(ReadLines(tgt.v), LAMBDA ls :
         With(IntOf(line_number), LAMBDA k :
            IF ~k.ok
            THEN [raised |-> "ValueError", target |-> tgt, lines |-> ls,
                  read |-> TRUE, wrote |-> FALSE]
            ELSE With(ListInsert(ls, InsertIndex(k.n), text), LAMBDA after :
                    [raised |-> "", target |-> Some(TextWrite(Concat(after))),
                     lines |-> after, read |-> TRUE, wrote |-> TRUE])))

\* ------------------------------------------------------------ state
VARIABLES
    program,            \* which script runs, or which function a harness calls
    pc,                 \* position in the script's __main__ block
    env,                \* os.environ: MM_LINE_NUMBER, MM_EDIT_FILEPATH, MM_TO_NAME_FIRST, MM_TO_NAME
    config,             \* ~/.texttemplate_config
    target,             \* the file MM_EDIT_FILEPATH names
    templates_root,     \* __main__'s templates_root
    template_contents,  \* __main__'s template_contents
    lines,              \* insert_text_at_line's lines
    exit_code,          \* the process's exit status once it has ended
    stderr,             \* the uncaught exception reported, "" for none; "OSError"
                        \* stands for whichever OSError a launch raised
    trace,              \* the external effects so far, in order
    dirArg,             \* the starting directory chosen for the directory picker
    tplArg,             \* the directory handed to the template picker
    dirOut,             \* what the directory picker did
    tplOut,             \* what the template picker did
    config0,            \* the config file when the run started
    target0,            \* the target file when the run started
    call,               \* a harness's arguments
    ret                 \* a harness's result

vars == <<program, pc, env, config, target, templates_root, template_contents, lines,
          exit_code, stderr, trace, dirArg, tplArg, dirOut, tplOut, config0, target0,
          call, ret>>

Running == 0 - 1
NoCall == [line_number |-> AsInt(0), text |-> <<>>, path |-> <<>>, k |-> 0]
NoEnv == [line |-> Absent, file |-> Absent, first |-> Absent, full |-> Absent]

\* ------------------------------------------------------------ inputs
\* MM_LINE_NUMBER: unset, empty, the host's str(k), and strings int() refuses or
\* accepts after trimming
HostIntegers == {IntToStr(k) : k \in (0 - 1)..MaxLineNo}
OtherIntegers == {<<TAB, "2", NBSP>>, <<VT, "+", "1", NL>>}
NotIntegers == {<<"2", ".", "5">>, <<FS, "2">>}
LineNumbers ==
    {Absent, Some(<<>>)}
    \cup {Some(l) : l \in HostIntegers \cup OtherIntegers \cup NotIntegers}
FilePaths == {Absent, Some(<<>>), Some(<<"m">>)}
Names == {<<Absent, Absent>>, <<Some(<<"S", "a", "m">>), Some(<<"A", "l">>)>>}
Envs ==
    {[line |-> l, file |-> f, first |-> nm[1], full |-> nm[2]] :
        l \in LineNumbers, f \in FilePaths, nm \in Names}

Configs ==
    {Absent, Some(<<>>), Some(<<SP, NL>>), Some(<<VT, "d", US, NL>>), Some(<<"q", NL>>),
     Some(<<TAB, "e", CR, NL>>)}

TargetLines == {<<"a", NL>>, <<"b", NL>>}
TargetTails == {<<>>, <<"c">>, <<"c", CR, NL>>}
Targets ==
    {Absent}
    \cup {Some(Concat(ls) \o t) : ls \in SeqsUpTo(TargetLines, MaxLines), t \in TargetTails}

\* ------------------------------------------------------------ runs
InitLocals ==
    /\ pc = "start"
    /\ templates_root = Absent
    /\ template_contents = Absent
    /\ lines = <<>>
    /\ exit_code = Running
    /\ stderr = ""
    /\ trace = <<>>
    /\ dirArg = Absent
    /\ tplArg = Absent
    /\ dirOut = NoOutcome
    /\ tplOut = NoOutcome
    /\ config0 = config
    /\ target0 = target
    /\ ret = Absent

Init ==
    /\ \/ /\ program = "ttinsert"
          /\ env \in Envs
          /\ target \in Targets
       \/ /\ program = "templates_root"
          /\ env = NoEnv
          /\ target = Absent
    /\ config \in Configs
    /\ call = NoCall
    /\ InitLocals

\* an uncaught exception ends the process with status 1
Raise(name) ==
    /\ pc' = "failed"
    /\ exit_code' = 1
    /\ stderr' = name

Finish ==
    /\ pc' = "done"
    /\ exit_code' = 0
    /\ stderr' = stderr

\* ttinsert.py __main__, line 138: not line_number or not filepath
EnvMissingChecksFileOnly(e) == ~Truthy(e.file)
EnvMissing(e) == ~Truthy(e.line) \/ ~Truthy(e.file)

\* ttinsert.py __main__, lines 135-139
CheckEnv ==
    /\ program = "ttinsert"
    /\ pc = "start"
    /\ trace' = Append(trace, "env")
    /\ IF EnvMissing(env)
       THEN Raise("ValueError")
       ELSE pc' = "resolve" /\ UNCHANGED <<exit_code, stderr>>
    /\ UNCHANGED <<program, env, config, target, templates_root, template_contents, lines,
                   dirArg, tplArg, dirOut, tplOut, config0, target0, call, ret>>

\* ttinsert.py __main__, lines 141-142
AfterResolveAlwaysPick(root) == "pick"
AfterResolve(root) == IF ~Truthy(root) THEN "prompt" ELSE "pick"
ResolveRoot ==
    /\ program = "ttinsert"
    /\ pc = "resolve"
    /\ trace' = Append(trace, "get_root")
    /\ templates_root' = get_templates_root(config)
    /\ pc' = AfterResolve(templates_root')
    /\ UNCHANGED <<program, env, config, target, template_contents, lines, exit_code,
                   stderr, dirArg, tplArg, dirOut, tplOut, config0, target0, call, ret>>

\* the effects of one prompt_for_templates_root call
PromptTrace(r) ==
    <<"dir_picker">> \o (IF r.wrote THEN <<"update_root">> ELSE <<>>)

\* ttinsert.py __main__, lines 142-144
AfterPrompt(root) == IF Truthy(root) THEN "pick" ELSE "dialog"
PromptRoot ==
    /\ program = "ttinsert"
    /\ pc = "prompt"
    /\ \E o \in DirPickerOutcomes :
          LET r == prompt_for_templates_root_insert(o, config)
          IN  /\ dirOut' = o
              /\ dirArg' = Some(r.arg)
              /\ config' = r.config
              /\ templates_root' = r.ret
              /\ trace' = trace \o PromptTrace(r)
              /\ IF r.raised
                 THEN Raise("OSError")
                 ELSE pc' = AfterPrompt(r.ret) /\ UNCHANGED <<exit_code, stderr>>
    /\ UNCHANGED <<program, env, target, template_contents, lines, tplArg, tplOut,
                   config0, target0, call, ret>>

\* ttinsert.py __main__, lines 145-146
PickTemplate ==
    /\ program = "ttinsert"
    /\ pc = "pick"
    /\ \E o \in TemplatePickerOutcomes :
          LET r == get_template(o)
          IN  /\ tplOut' = o
              /\ tplArg' = templates_root
              /\ template_contents' = r.ret
              /\ trace' = trace \o <<"tpl_picker">>
                                \o (IF r.opened THEN <<"read_template">> ELSE <<>>)
              /\ IF r.raised
                 THEN Raise("OSError")
                 ELSE IF r.ret.set
                      THEN pc' = "insert" /\ UNCHANGED <<exit_code, stderr>>
                      ELSE Finish
    /\ UNCHANGED <<program, env, config, target, templates_root, lines, dirArg, dirOut,
                   config0, target0, call, ret>>

\* the effects of one insert_text_at_line call
InsertTrace(r) ==
    (IF r.read THEN <<"read_target">> ELSE <<>>)
    \o (IF r.wrote THEN <<"write_target">> ELSE <<>>)

\* ttinsert.py __main__, line 147
InsertTemplate ==
    /\ program = "ttinsert"
    /\ pc = "insert"
    /\ \E text \in {replace_tags(template_contents.v, env.first, env.full)} :
       \E r \in {insert_text_at_line(target, AsStr(env.line.v), text)} :
           /\ ret' = Some(text)
           /\ target' = r.target
           /\ lines' = r.lines
           /\ trace' = trace \o <<"replace_tags">> \o InsertTrace(r)
           /\ IF r.raised # "" THEN Raise(r.raised) ELSE Finish
    /\ UNCHANGED <<program, env, config, templates_root, template_contents, dirArg,
                   tplArg, dirOut, tplOut, config0, target0, call>>

\* what starting osascript can do: the launch raises an OSError (FileNotFoundError
\* without an osascript on the PATH, PermissionError with one that cannot be
\* executed), or the dialog is shown and osascript ends (its status is not
\* looked at)
DialogOutcomes == {"raised", "shown"}

\* ttinsert.py __main__, lines 151-153
ShowDialog ==
    /\ program = "ttinsert"
    /\ pc = "dialog"
    /\ trace' = Append(trace, "dialog")
    /\ \E o \in DialogOutcomes :
          IF o = "raised" THEN Raise("OSError") ELSE Finish
    /\ UNCHANGED <<program, env, config, target, templates_root, template_contents, lines,
                   dirArg, tplArg, dirOut, tplOut, config0, target0, call, ret>>

\* templates_root.py, lines 32-35, entered from __main__ (line 46): the config
\* is read and the picker's starting directory is chosen
ChangeResolve ==
    /\ program = "templates_root"
    /\ pc = "start"
    /\ trace' = Append(trace, "get_root")
    /\ dirArg' = Some(default_dir(config))
    /\ pc' = "picker"
    /\ UNCHANGED <<program, env, config, target, templates_root, template_contents, lines,
                   exit_code, stderr, tplArg, dirOut, tplOut, config0, target0, call, ret>>

\* templates_root.py, lines 36-42, and the end of __main__: the picker runs until
\* the user is done with it, then the config is written
ChangePrompt ==
    /\ program = "templates_root"
    /\ pc = "picker"
    /\ \E o \in DirPickerOutcomes :
          LET r == prompt_for_templates_root_change(dirArg.v, o, config)
          IN  /\ dirOut' = o
              /\ config' = r.config
              /\ ret' = r.ret
              /\ trace' = trace \o PromptTrace(r)
              /\ IF r.raised THEN Raise("OSError") ELSE Finish
    /\ UNCHANGED <<program, env, target, templates_root, template_contents, lines, dirArg,
                   tplArg, tplOut, config0, target0, call>>

Next ==
    \/ CheckEnv
    \/ ResolveRoot
    \/ PromptRoot
    \/ PickTemplate
    \/ InsertTemplate
    \/ ShowDialog
    \/ ChangeResolve
    \/ ChangePrompt

Spec == Init /\ [][Next]_vars

\* every step of a script is a blocking call that returns: a run that can take a
\* step takes it
FairSpec == Spec /\ WF_vars(Next)

\* ------------------------------------------------------------ harnesses
\* One call of a function on drawn arguments, the rest of the state at rest.
InitCall(name) ==
    /\ program = name
    /\ pc = "call"
    /\ templates_root = Absent
    /\ template_contents = Absent
    /\ lines = <<>>
    /\ exit_code = Running
    /\ stderr = ""
    /\ trace = <<>>
    /\ dirArg = Absent
    /\ tplArg = Absent
    /\ dirOut = NoOutcome
    /\ tplOut = NoOutcome
    /\ config0 = config
    /\ target0 = target
    /\ ret = Absent

\* insert_text_at_line(filepath, line_number, text), line_number an int or a str
InsertTexts == {<<>>, <<"t">>, <<"t", NL>>, <<"t", NL, "u", NL>>}
InsertCalls ==
    UNION {{[line_number |-> ln, text |-> t, path |-> <<>>, k |-> k] :
              ln \in {AsInt(k), AsStr(IntToStr(k))}, t \in InsertTexts} :
           k \in (0 - MaxLineNo)..(2 * MaxLineNo)}
InitInsert ==
    /\ env = NoEnv
    /\ config = Absent
    /\ target \in Targets
    /\ call \in InsertCalls
    /\ InitCall("insert_text_at_line")

CallInsert ==
    /\ program = "insert_text_at_line"
    /\ pc = "call"
    /\ LET r == insert_text_at_line(target, call.line_number, call.text)
       IN  /\ target' = r.target
           /\ lines' = r.lines
           /\ stderr' = r.raised
           /\ trace' = trace \o InsertTrace(r)
    /\ pc' = "returned"
    /\ UNCHANGED <<program, env, config, templates_root, template_contents, exit_code,
                   dirArg, tplArg, dirOut, tplOut, config0, target0, call, ret>>

SpecInsert == InitInsert /\ [][CallInsert]_vars

\* update_templates_root(path) followed by get_templates_root()
PathChars == {"d", SP, NL, CR, TAB, VT, FS, NBSP}
ConfigCalls ==
    {[line_number |-> AsInt(0), text |-> <<>>, path |-> p, k |-> 0] :
        p \in SeqsUpTo(PathChars, MaxPathLen) \ {<<>>}}
InitConfig ==
    /\ env = NoEnv
    /\ config \in Configs
    /\ target = Absent
    /\ call \in ConfigCalls
    /\ InitCall("config_store")

CallUpdate ==
    /\ program = "config_store"
    /\ pc = "call"
    /\ config' = update_templates_root(config, call.path)
    /\ trace' = Append(trace, "update_root")
    /\ pc' = "updated"
    /\ UNCHANGED <<program, env, target, templates_root, template_contents, lines,
                   exit_code, stderr, dirArg, tplArg, dirOut, tplOut, config0, target0,
                   call, ret>>

CallGet ==
    /\ program = "config_store"
    /\ pc = "updated"
    /\ ret' = get_templates_root(config)
    /\ trace' = Append(trace, "get_root")
    /\ pc' = "returned"
    /\ UNCHANGED <<program, env, config, target, templates_root, template_contents, lines,
                   exit_code, stderr, dirArg, tplArg, dirOut, tplOut, config0, target0,
                   call>>

NextConfig == CallUpdate \/ CallGet
SpecConfig == InitConfig /\ [][NextConfig]_vars

\* every function that prompts for a root or writes the config file, called on
\* its own on any config file: prompt_for_templates_root of ttinsert.py and of
\* templates_root.py, and the functions of ttinsert.py that no script calls
InsertPrompt == "ttinsert.prompt_for_templates_root"
ChangePromptFn == "templates_root.prompt_for_templates_root"
PromptCopies == {InsertPrompt, ChangePromptFn}
Unused == "unused"
InitPrompt ==
    /\ env = NoEnv
    /\ config \in Configs
    /\ target = Absent
    /\ call \in ConfigCalls
    /\ \E name \in PromptCopies \cup {Unused} : InitCall(name)

\* ttinsert.py, lines 30-39
CallPromptInsert ==
    /\ program = InsertPrompt
    /\ pc = "call"
    /\ \E o \in DirPickerOutcomes :
          LET r == prompt_for_templates_root_insert(o, config)
          IN  /\ dirOut' = o
              /\ dirArg' = Some(r.arg)
              /\ config' = r.config
              /\ ret' = r.ret
              /\ trace' = trace \o PromptTrace(r)
              /\ stderr' = IF r.raised THEN "OSError" ELSE ""
    /\ pc' = "returned"
    /\ UNCHANGED <<program, env, target, templates_root, template_contents, lines,
                   exit_code, tplArg, tplOut, config0, target0, call>>

\* templates_root.py, lines 32-35
CallPromptResolve ==
    /\ program = ChangePromptFn
    /\ pc = "call"
    /\ trace' = Append(trace, "get_root")
    /\ dirArg' = Some(default_dir(config))
    /\ pc' = "picker"
    /\ UNCHANGED <<program, env, config, target, templates_root, template_contents, lines,
                   exit_code, stderr, tplArg, dirOut, tplOut, config0, target0, call, ret>>

\* templates_root.py, lines 36-42
CallPromptChange ==
    /\ program = ChangePromptFn
    /\ pc = "picker"
    /\ \E o \in DirPickerOutcomes :
          LET r == prompt_for_templates_root_change(dirArg.v, o, config)
          IN  /\ dirOut' = o
              /\ config' = r.config
              /\ ret' = r.ret
              /\ trace' = trace \o PromptTrace(r)
              /\ stderr' = IF r.raised THEN "OSError" ELSE ""
    /\ pc' = "returned"
    /\ UNCHANGED <<program, env, target, templates_root, template_contents, lines,
                   exit_code, dirArg, tplArg, tplOut, config0, target0, call>>

CallWriteTemplateRoot ==
    /\ program = Unused
    /\ pc = "call"
    /\ config' = write_template_root(config, call.path)
    /\ trace' = Append(trace, "update_root")
    /\ pc' = "updated"
    /\ UNCHANGED <<program, env, target, templates_root, template_contents, lines,
                   exit_code, stderr, dirArg, tplArg, dirOut, tplOut, config0, target0,
                   call, ret>>

CallGetTemplateRoot ==
    /\ program = Unused
    /\ pc \in {"call", "updated"}
    /\ ret' = get_template_root(config)
    /\ trace' = Append(trace, "get_root")
    /\ pc' = "returned"
    /\ UNCHANGED <<program, env, config, target, templates_root, template_contents, lines,
                   exit_code, stderr, dirArg, tplArg, dirOut, tplOut, config0, target0,
                   call>>

CallPromptForTemplateRoot ==
    /\ program = Unused
    /\ pc = "call"
    /\ \E o \in DirPickerOutcomes \cup TemplatePickerOutcomes :
          LET r == prompt_for_template_root(o, config)
          IN  /\ tplOut' = o
              /\ tplArg' = Some(r.arg)
              /\ config' = r.config
              /\ ret' = r.ret
              /\ trace' = <<"tpl_picker">> \o (IF r.wrote THEN <<"update_root">> ELSE <<>>)
              /\ stderr' = IF r.raised THEN "OSError" ELSE ""
    /\ pc' = "returned"
    /\ UNCHANGED <<program, env, target, templates_root, template_contents, lines,
                   exit_code, dirArg, dirOut, config0, target0, call>>

NextPrompt ==
    \/ CallPromptInsert
    \/ CallPromptResolve
    \/ CallPromptChange
    \/ CallWriteTemplateRoot
    \/ CallGetTemplateRoot
    \/ CallPromptForTemplateRoot
SpecPrompt == InitPrompt /\ [][NextPrompt]_vars

\* replace_tags(text) under MM_TO_NAME_FIRST and MM_TO_NAME
OtherTag == <<"[", "[", "X", "]", "]">>
FullHead == <<"[", "[", "T", "O", "=", "f", "u", "l", "l">>
FullTail == <<"n", "a", "m", "e", "]", "]">>
Fragments == {TagFirst, TagFull, OtherTag, FullHead, FullTail, <<"a">>}
TagTexts == {Concat(fs) : fs \in SeqsUpTo(Fragments, MaxFrags)}
FirstNames == {Absent, Some(<<>>), Some(<<"S", "a", "m">>), Some(TagFull), Some(TagFirst)}
FullNames == {Absent, Some(<<"A", "l">>), Some(TagFirst)}
InitTags ==
    /\ env \in {[line |-> Absent, file |-> Absent, first |-> a, full |-> b] :
                  a \in FirstNames, b \in FullNames}
    /\ config = Absent
    /\ target = Absent
    /\ call \in {[line_number |-> AsInt(0), text |-> t, path |-> <<>>, k |-> 0] :
                   t \in TagTexts}
    /\ InitCall("replace_tags")

CallReplace ==
    /\ program = "replace_tags"
    /\ pc = "call"
    /\ ret' = Some(replace_tags(call.text, env.first, env.full))
    /\ trace' = Append(trace, "replace_tags")
    /\ pc' = "returned"
    /\ UNCHANGED <<program, env, config, target, templates_root, template_contents, lines,
                   exit_code, stderr, dirArg, tplArg, dirOut, tplOut, config0, target0,
                   call>>

SpecTags == InitTags /\ [][CallReplace]_vars

\* ------------------------------------------------------------ properties
Count(e) == Cardinality({i \in DOMAIN trace : trace[i] = e})
Has(e) == \E i \in DOMAIN trace : trace[i] = e
Pos(e) == CHOOSE i \in DOMAIN trace : trace[i] = e
\* b happens only after a
Before(a, b) == Has(b) => (Has(a) /\ Pos(a) < Pos(b))
Terminated == pc \in {"done", "failed"}
Events ==
    {"env", "get_root", "dir_picker", "update_root", "tpl_picker", "read_template",
     "replace_tags", "read_target", "write_target", "dialog"}

\* l without its i-th element
Without(l, i) == SubSeq(l, 1, i - 1) \o SubSeq(l, i + 1, Len(l))
\* the lines of a file as stored, each with its "\n"
StoredLines(stored) == SplitLines(stored)
NewlineTerminated(stored) == stored = <<>> \/ stored[Len(stored)] = NL
NoCR(s) == \A i \in DOMAIN s : s[i] # CR
\* s without one trailing "\n"
Chomp(s) == IF s # <<>> /\ s[Len(s)] = NL THEN SubSeq(s, 1, Len(s) - 1) ELSE s
\* one line and its "\n", nothing more
OneLine(s) == s # <<>> /\ s[Len(s)] = NL /\ \A i \in 1..(Len(s) - 1) : s[i] # NL

\* C1: insert_text_at_line on the lines L of an existing target file and the
\* integer k leaves a list of Len(L)+1 elements that is L with the new text put
\* in at index max(0, k-1), or at the end when that index is past the end of L;
\* k <= 1 puts the text first; the call does not fail, and the file is rewritten
\* as the list's concatenation.
C1_InsertAtLine ==
    (program = "insert_text_at_line" /\ pc = "returned" /\ target0.set) =>
        LET L == ReadLines(target0.v)
            k == call.k
            at == IF k - 1 > 0 THEN k - 1 ELSE 0
            index == IF at > Len(L) THEN Len(L) ELSE at
        IN  /\ stderr = ""
            /\ Len(lines) = Len(L) + 1
            /\ lines[index + 1] = call.text
            /\ Without(lines, index + 1) = L
            /\ (k <= 1 => lines[1] = call.text)
            /\ (at > Len(L) => lines[Len(lines)] = call.text)
            /\ target = Some(Concat(lines))
C1_Witness ==
    /\ program = "insert_text_at_line"
    /\ pc = "returned"
    /\ target0.set
    /\ Len(ReadLines(target0.v)) = 2
    /\ call.k > 3
    /\ call.line_number.kind = "str"
    /\ Len(lines) = 3
    /\ lines[3] = call.text

\* the run inserted the template: the case of C2
C2_Case ==
    /\ program = "ttinsert"
    /\ pc = "done"
    /\ Has("write_target")
    /\ target0.set
    /\ NewlineTerminated(target0.v)
    /\ IntParse(env.line.v).ok
    /\ IntParse(env.line.v).n >= 1
    /\ IntParse(env.line.v).n <= Len(StoredLines(target0.v))
C2_Text == replace_tags(template_contents.v, env.first, env.full)
C2_LinesShifted(old, new, k) ==
    /\ Len(new) = Len(old) + 1
    /\ \A i \in 1..(k - 1) : new[i] = old[i]
    /\ \A i \in k..Len(old) : new[i + 1] = old[i]

\* C2 as stated: whatever the template content, the rewritten file has n+1
\* lines, line k is the substituted text, and the old lines are unchanged around it.
C2_Original ==
    C2_Case =>
        LET old == StoredLines(target0.v)
            new == StoredLines(target.v)
            k == IntParse(env.line.v).n
        IN  /\ C2_LinesShifted(old, new, k)
            /\ Chomp(new[k]) = Chomp(C2_Text)

\* C2 (amended): for a target file of n newline-terminated lines without
\* carriage returns and 1 <= k <= n, the rewritten file is lines 1..k-1, the
\* substituted text, then the former lines k..n, all unchanged; it has n+1 lines
\* with line k the substituted text when that text is one newline-terminated line.
C2_Amended ==
    (C2_Case /\ NoCR(target0.v)) =>
        LET old == StoredLines(target0.v)
            new == StoredLines(target.v)
            k == IntParse(env.line.v).n
        IN  /\ target.v = Concat(SubSeq(old, 1, k - 1)) \o C2_Text
                           \o Concat(SubSeq(old, k, Len(old)))
            /\ OneLine(C2_Text) => (C2_LinesShifted(old, new, k) /\ new[k] = C2_Text)
C2_Witness ==
    /\ C2_Case
    /\ NoCR(target0.v)
    /\ Len(StoredLines(target0.v)) = 3
    /\ IntParse(env.line.v).n = 2
    /\ C2_Text = <<"H", "i", SP, "S", "a", "m", ",", NL>>
    /\ Len(StoredLines(target.v)) = 4

\* the claim's reading of substitution: one pass over the input text, each
\* token found there replaced by its value, values never looked into
RECURSIVE SubstituteInInput(_, _, _)
SubstituteInInput(s, first, full) ==
    IF s = <<>> THEN <<>>
    ELSE IF HasPrefix(s, TagFirst)
         THEN first \o SubstituteInInput(SubSeq(s, Len(TagFirst) + 1, Len(s)), first, full)
         ELSE IF HasPrefix(s, TagFull)
              THEN full \o SubstituteInInput(SubSeq(s, Len(TagFull) + 1, Len(s)), first, full)
              ELSE <<Head(s)>> \o SubstituteInInput(Tail(s), first, full)

\* C3: replace_tags returns the input with every [[TO=firstname]] of the input
\* replaced by the first name and every [[TO=fullname]] of the input replaced by
\* the full name (empty when unset), everything else unchanged.
C3_Substitution ==
    (program = "replace_tags" /\ pc = "returned") =>
        ret.v = SubstituteInInput(call.text, EnvOr(env.first, <<>>), EnvOr(env.full, <<>>))

\* C4 as stated: for any non-empty p, update_templates_root(p) then
\* get_templates_root() returns p.strip(), and the file holds that and a newline.
C4_Original ==
    (program = "config_store" /\ pc = "returned") =>
        /\ ret = Some(Strip(call.path))
        /\ config = Some(Strip(call.path) \o <<NL>>)

\* C4 (amended): update_templates_root(p) overwrites the file with p.strip() and
\* a newline, whatever it held; get_templates_root() then returns p.strip() when
\* that is non-empty and holds no carriage return, and absent when it is empty.
C4_Amended ==
    (program = "config_store" /\ pc = "returned") =>
        LET t == Strip(call.path)
        IN  /\ config = Some(t \o <<NL>>)
            /\ (t # <<>> /\ NoCR(t)) => ret = Some(t)
            /\ t = <<>> => ret = Absent
C4_Witness ==
    /\ program = "config_store"
    /\ pc = "returned"
    /\ config0 = Some(<<"q", NL>>)
    /\ call.path = <<VT, "d", FS>>
    /\ ret = Some(<<"d">>)

\* C5: with MM_EDIT_FILEPATH or MM_LINE_NUMBER absent the run ends at once with
\* the ValueError reported and exit status 1; no file is read or written and no
\* picker or dialog runs.
C5_FailFast ==
    (program = "ttinsert" /\ (~env.line.set \/ ~env.file.set) /\ pc # "start") =>
        /\ pc = "failed"
        /\ exit_code = 1
        /\ stderr = "ValueError"
        /\ trace = <<"env">>
        /\ config = config0
        /\ target = target0
        /\ dirOut = NoOutcome
        /\ tplOut = NoOutcome
C5_Witness ==
    /\ program = "ttinsert"
    /\ ~env.line.set
    /\ env.file.set
    /\ pc = "failed"

\* the directory picker returned and gave no existing directory
C6_Case ==
    /\ program = "ttinsert"
    /\ dirOut # NoOutcome
    /\ ~dirOut.raised
    /\ (dirOut.rc # 0 \/ ~IsDir(Strip(TextRead(dirOut.stdout))))

\* C6: when the config gives no root and the directory picker gives none either,
\* the template picker never runs, the target and the config stay as they were,
\* and the run shows the error dialog once and ends with exit status 0.
C6_NoRoot ==
    C6_Case =>
        /\ ~Truthy(get_templates_root(config0))
        /\ tplOut = NoOutcome
        /\ ~Has("tpl_picker")
        /\ ~Has("read_target")
        /\ ~Has("write_target")
        /\ ~Has("update_root")
        /\ config = config0
        /\ target = target0
        /\ pc \in {"dialog", "done"}
        /\ pc = "done" => (Count("dialog") = 1 /\ exit_code = 0 /\ stderr = "")
\* the template picker ran and gave no readable regular file
C7_Case ==
    /\ program = "ttinsert"
    /\ tplOut # NoOutcome
    /\ \/ tplOut.raised
       \/ tplOut.rc # 0
       \/ ~IsFile(Strip(TextRead(tplOut.stdout)))
       \/ ~Readable(Strip(TextRead(tplOut.stdout)))

\* C7: with a root resolved and no template from the picker, get_template gives
\* None, the target is untouched, no dialog is shown and the run ends with exit
\* status 0.
C7_NoTemplate ==
    C7_Case =>
        /\ Truthy(tplArg)
        /\ template_contents = Absent
        /\ pc = "done"
        /\ exit_code = 0
        /\ stderr = ""
        /\ target = target0
        /\ ~Has("replace_tags")
        /\ ~Has("read_target")
        /\ ~Has("write_target")
        /\ ~Has("dialog")
C7_Witness ==
    /\ C7_Case
    /\ tplOut.raised
    /\ Has("update_root")
    /\ pc = "done"

\* what the directory picker put out, trimmed, and whether it ended with status 0
\* and an existing directory there
C8_Picked == Strip(TextRead(dirOut.stdout))
C8_Success == ~dirOut.raised /\ dirOut.rc = 0 /\ IsDir(C8_Picked)
\* a call of prompt_for_templates_root has ended
C8_Ended == program \in PromptCopies /\ pc = "returned"

\* C8: a call of prompt_for_templates_root (either script's) writes the picked
\* path to the config and returns it exactly when the picker ends with status 0
\* and its trimmed output is an existing directory; in every other case the
\* call returns None and the config is as it was.  The picker is started in
\* the configured root, in ~/Documents only when none is configured.  No
\* function other than prompt_for_templates_root changes the config file.
C8_Prompt ==
    /\ (C8_Ended /\ C8_Success) =>
          /\ stderr = ""
          /\ ret = Some(C8_Picked)
          /\ config = Some(C8_Picked \o <<NL>>)
    /\ (C8_Ended /\ ~C8_Success) =>
          /\ stderr = ""
          /\ ret = Absent
          /\ config = config0
    /\ (program \in PromptCopies /\ dirArg.set) =>
          dirArg = IF Truthy(get_templates_root(config0))
                   THEN get_templates_root(config0)
                   ELSE Some(Documents)
    /\ program \notin PromptCopies => config = config0

\* the order of a run's steps
C9_Order ==
    /\ \A e \in Events : Count(e) <= 1
    /\ program = "ttinsert" =>
          /\ \A e \in Events \ {"env", "get_root"} : Before("get_root", e)
          /\ Has("dir_picker") => ~Truthy(get_templates_root(config0))
          /\ Before("dir_picker", "update_root")
          /\ Has("tpl_picker") =>
                /\ Truthy(templates_root)
                /\ tplArg = templates_root
                /\ Has("dir_picker") => Pos("dir_picker") < Pos("tpl_picker")
          /\ Before("tpl_picker", "read_template")
          /\ Before("read_template", "replace_tags")
          /\ Before("replace_tags", "read_target")
          /\ Before("read_target", "write_target")
          /\ Has("replace_tags") => template_contents.set
          /\ ~(Has("dialog") /\ Has("tpl_picker"))

\* C9: every run is linear: each step at most once, the config read before
\* anything else, the directory picker only without a configured root, the
\* template picker only with a root, substitution and the one rewrite of the
\* target only with template content, never both the dialog and the template
\* picker; and every run ends.
C9_Linear == []C9_Order /\ <>Terminated
C9_Witness ==
    /\ program = "ttinsert"
    /\ pc = "done"
    /\ Has("dir_picker")
    /\ Has("update_root")
    /\ Has("write_target")

\* MM_LINE_NUMBER is set, not empty and no integer; the target file exists
C10_Case ==
    /\ program = "ttinsert"
    /\ Truthy(env.line)
    /\ Truthy(env.file)
    /\ env.line.v \in NotIntegers
    /\ target0.set

\* C10: with a line number that is no integer the check of the environment
\* passes and the pickers run; insert_text_at_line then fails with ValueError
\* after reading the target and before writing it: the run ends with exit
\* status 1, the target is as it was, and a root the directory picker persisted
\* in this run stays in the config.
C10_BadLineNumber ==
    C10_Case =>
        /\ trace = <<"env">> => pc = "resolve"
        /\ target = target0
        /\ ~Has("write_target")
        /\ Has("replace_tags") =>
              /\ pc = "failed"
              /\ exit_code = 1
              /\ stderr = "ValueError"
              /\ Has("read_target")
              /\ Has("update_root") => config = Some(C8_Picked \o <<NL>>)
        /\ pc = "done" => ~template_contents.set
C10_Witness ==
    /\ C10_Case
    /\ env.line.v = <<"2", ".", "5">>
    /\ pc = "failed"
    /\ stderr = "ValueError"
    /\ Has("update_root")
    /\ Has("read_target")
    /\ config # config0

=============================================================================
